---------------------------- MODULE Spec2Model ----------------------------
(***************************************************************************)
(* A model of the inet extension: the IPv4/IPv6 text parser and formatter  *)
(* of extension/inet/ipaddress.cpp and the casts and the checked offset    *)
(* arithmetic of extension/inet/inet_functions.cpp (three revisions of     *)
(* that file are in the sources).                                          *)
(*                                                                         *)
(* A text is a sequence of one-character strings.  A 128-bit integer       *)
(* (hugeint_t, uhugeint_t) is a sequence of 8 quibbles, 16 bits each, most *)
(* significant first; a uint32_t is a sequence of 2 quibbles.  Indexes     *)
(* into a text (c, start, size) are 0-based as in the source.              *)
(***************************************************************************)
EXTENDS Integers, Sequences, FiniteSets

VARIABLES pc, shape, input, value, result, rev, current, last, nops, source, rows

codec == <<shape, input, value, result>>
arith == <<current, last, nops>>
casts == <<source, rows>>
vars == <<pc, shape, input, value, result, rev, current, last, nops, source, rows>>

----------------------------------------------------------------------------
(* Constants of the source *)

HEX_BITSIZE == 4
MAX_QUIBBLE_DIGITS == 4
IPV4_DEFAULT_MASK == 32
IPV6_DEFAULT_MASK == 128
IPV6_QUIBBLE_BITS == 16
IPV6_NUM_QUIBBLE == 8

IP_ADDRESS_INVALID == "IP_ADDRESS_INVALID"
IP_ADDRESS_V4 == "IP_ADDRESS_V4"
IP_ADDRESS_V6 == "IP_ADDRESS_V6"

----------------------------------------------------------------------------
(* Characters *)

DecDigits == <<"0", "1", "2", "3", "4", "5", "6", "7", "8", "9">>
LowerHexDigits == DecDigits \o <<"a", "b", "c", "d", "e", "f">>
UpperHexDigits == DecDigits \o <<"A", "B", "C", "D", "E", "F">>

Range(s) == {s[i] : i \in DOMAIN s}

CharacterIsDigit(ch) == ch \in Range(DecDigits)
CharacterIsHex(ch) == ch \in Range(LowerHexDigits) \cup Range(UpperHexDigits)

GetHexValue(ch) ==
    IF ch \in Range(LowerHexDigits)
    THEN (CHOOSE i \in 1..16 : LowerHexDigits[i] = ch) - 1
    ELSE (CHOOSE i \in 1..16 : UpperHexDigits[i] = ch) - 1

\* data[c] of the source, c counted from 0
At(data, c) == data[c + 1]

\* string_t(data + start, len)
Slice(data, start, len) == SubSeq(data, start + 1, start + len)

\* while (c < size && class(data[c])) c++ : the scans of the parsers
RECURSIVE ScanDigits(_, _)
ScanDigits(data, c) ==
    IF c < Len(data) /\ CharacterIsDigit(At(data, c)) THEN ScanDigits(data, c + 1) ELSE c

RECURSIVE ScanHex(_, _)
ScanHex(data, c) ==
    IF c < Len(data) /\ CharacterIsHex(At(data, c)) THEN ScanHex(data, c + 1) ELSE c

RECURSIVE ScanDigitsAndDots(_, _)
ScanDigitsAndDots(data, c) ==
    IF c < Len(data) /\ (CharacterIsDigit(At(data, c)) \/ At(data, c) = ".")
    THEN ScanDigitsAndDots(data, c + 1) ELSE c

----------------------------------------------------------------------------
(* 128-bit integers as 8 quibbles *)

Quibble == 0..65535
Zero128 == [i \in 1..IPV6_NUM_QUIBBLE |-> 0]

\* x << (n * 16) on a uhugeint_t: quibbles shifted out are lost, a shift of
\* 128 bits or more gives 0
ShiftLeftQuibbles(x, n) ==
    [i \in 1..IPV6_NUM_QUIBBLE |-> IF i + n <= IPV6_NUM_QUIBBLE THEN x[i + n] ELSE 0]

RECURSIVE BitOr16(_, _, _)
BitOr16(a, b, bits) ==
    IF bits = 0 THEN 0
    ELSE (IF a % 2 = 1 \/ b % 2 = 1 THEN 1 ELSE 0) + 2 * BitOr16(a \div 2, b \div 2, bits - 1)

\* x | y
Or128(x, y) == [i \in 1..IPV6_NUM_QUIBBLE |-> BitOr16(x[i], y[i], IPV6_QUIBBLE_BITS)]

\* a uint32_t widened to 128 bits
Widen32(a) == [i \in 1..IPV6_NUM_QUIBBLE |-> IF i = 7 THEN a[1] ELSE IF i = 8 THEN a[2] ELSE 0]

----------------------------------------------------------------------------
(* The parse result: IPAddress plus the bool the parsers return *)

IPAddressError(error) ==
    [ok |-> FALSE, error |-> error, type |-> IP_ADDRESS_INVALID, address |-> Zero128, mask |-> 0]

Parsed(type, address, mask) ==
    [ok |-> TRUE, error |-> "", type |-> type, address |-> address, mask |-> mask]

\* The decimal value of a run of digits, for runs of at most 3 digits
RECURSIVE DigitsValue(_)
DigitsValue(s) ==
    IF Len(s) = 0 THEN 0
    ELSE 10 * DigitsValue(SubSeq(s, 1, Len(s) - 1)) + GetHexValue(s[Len(s)])

\* TryCast::Operation<string_t, uint8_t> on a run of decimal digits: the cast
\* is the host's; it fails on the empty string, on a value over 255 and, as the
\* grammar states it, on a group written with a leading zero.
TryCastUInt8(s) ==
    IF Len(s) = 0 \/ Len(s) > 3 THEN [ok |-> FALSE, number |-> 0]
    ELSE IF Len(s) > 1 /\ s[1] = "0" THEN [ok |-> FALSE, number |-> 0]
    ELSE IF DigitsValue(s) > 255 THEN [ok |-> FALSE, number |-> 0]
    ELSE [ok |-> TRUE, number |-> DigitsValue(s)]

----------------------------------------------------------------------------
(* TryParseIPv4 *)

\* Seeded fault for C10: the octet added without the shift
ShiftInOctet_unshifted(address, number) ==
    <<address[1], (address[2] + number) % 65536>>

\* address <<= 8; address += number; on a uint32_t held as 2 quibbles
ShiftInOctet(address, number) ==
    <<(address[1] % 256) * 256 + (address[2] \div 256), (address[2] % 256) * 256 + number>>

\* parse_mask: with no check that the digits end the input
ParseMaskIPv4(data, c, address) ==
    IF c = Len(data) THEN Parsed(IP_ADDRESS_V4, Widen32(address), IPV4_DEFAULT_MASK)
    ELSE IF At(data, c) # "/" THEN IPAddressError("Expected a slash")
    ELSE LET start == c + 1
             c2 == ScanDigits(data, start)
             mask == TryCastUInt8(Slice(data, start, c2 - start))
         IN  IF ~mask.ok THEN IPAddressError("Expected a number between 0 and 32")
             ELSE IF mask.number > 32 THEN IPAddressError("Expected a number between 0 and 32")
             ELSE Parsed(IP_ADDRESS_V4, Widen32(address), mask.number)

\* Seeded fault for C11: the result of the cast not checked, the digits taken
\* for the octet as they are
RECURSIVE ParseNumberIPv4_unchecked(_, _, _, _)
ParseNumberIPv4_unchecked(data, c, number_count, address) ==
    LET c2 == ScanDigits(data, c)
        address2 == ShiftInOctet(address, DigitsValue(Slice(data, c, c2 - c)) % 256)
    IN  IF c = c2 THEN IPAddressError("Expected a number")
        ELSE IF number_count + 1 = 4 THEN ParseMaskIPv4(data, c2, address2)
        ELSE IF c2 = Len(data) \/ At(data, c2) # "." THEN IPAddressError("Expected a dot")
        ELSE ParseNumberIPv4_unchecked(data, c2 + 1, number_count + 1, address2)

\* parse_number and parse_dot
RECURSIVE ParseNumberIPv4(_, _, _, _)
ParseNumberIPv4(data, c, number_count, address) ==
    LET start == c
        c2 == ScanDigits(data, c)
        number == TryCastUInt8(Slice(data, start, c2 - start))
        address2 == ShiftInOctet(address, number.number)
    IN  IF start = c2 THEN IPAddressError("Expected a number")
        ELSE IF ~number.ok THEN IPAddressError("Expected a number between 0 and 255")
        ELSE IF number_count + 1 = 4 THEN ParseMaskIPv4(data, c2, address2)
        ELSE IF c2 = Len(data) \/ At(data, c2) # "." THEN IPAddressError("Expected a dot")
        ELSE ParseNumberIPv4(data, c2 + 1, number_count + 1, address2)

TryParseIPv4(data) == ParseNumberIPv4(data, 0, 0, <<0, 0>>)

----------------------------------------------------------------------------
(* TryParseIPv6 *)

\* parseQuibble: the uint16_t value of len hex digits, shifted into address
RECURSIVE QuibbleValue(_)
QuibbleValue(buf) ==
    IF Len(buf) = 0 THEN 0
    ELSE (QuibbleValue(SubSeq(buf, 1, Len(buf) - 1)) * (2 ^ HEX_BITSIZE)
          + GetHexValue(buf[Len(buf)])) % 65536

\* Seeded fault for C9: the quibble stored without the shift
parseQuibble_unshifted(address, buf) ==
    [address EXCEPT ![IPV6_NUM_QUIBBLE] = QuibbleValue(buf)]

\* address = (address << IPV6_QUIBBLE_BITS) + result
parseQuibble(address, buf) ==
    [i \in 1..IPV6_NUM_QUIBBLE |->
        IF i = IPV6_NUM_QUIBBLE THEN QuibbleValue(buf) ELSE address[i + 1]]

\* Seeded fault for C1: the IPv4 address or-ed in without the shift
ShiftInIPv4_unshifted(address, ipv4) == Or128(address, ipv4)

\* (address << 2 * IPV6_QUIBBLE_BITS) | ipv4.address
ShiftInIPv4(address, ipv4) == Or128(ShiftLeftQuibbles(address, 2), ipv4)

\* The local variables of TryParseIPv6 when its loop is entered
IPv6LoopStart ==
    [c |-> 0, parsed_quibble_count |-> 0, first_address |-> Zero128,
     second_address |-> Zero128, first_quibble_count |-> -1,
     mask |-> IPV6_DEFAULT_MASK, error |-> ""]

IPv6Fail(s, error) == [s EXCEPT !.error = error]

\* The mask branch of the loop, entered with data[c] = '/': it ends the loop
IPv6ParseMask(data, s) ==
    LET start == s.c + 1
        c2 == ScanDigits(data, start)
        mask == TryCastUInt8(Slice(data, start, c2 - start))
    IN  IF ~mask.ok THEN IPv6Fail(s, "Expected a number between 0 and 128")
        ELSE IF mask.number > IPV6_DEFAULT_MASK
             THEN IPv6Fail(s, "Expected a number between 0 and 128")
        ELSE [s EXCEPT !.c = c2, !.mask = mask.number]

\* The while loop of TryParseIPv6: the locals when the loop is left, error set
\* when the loop returned false
RECURSIVE IPv6Loop(_, _)
IPv6Loop(data, s) ==
    IF ~(s.c < Len(data) /\ s.parsed_quibble_count < IPV6_NUM_QUIBBLE) THEN s
    ELSE
    LET size == Len(data)
        start == s.c
        c == ScanHex(data, start)
        len == c - start
    IN  IF len > MAX_QUIBBLE_DIGITS THEN IPv6Fail(s, "Expected 4 or fewer hex digits")
        ELSE IF c < size /\ At(data, c) = "."
        THEN \* the dotted decimal form
             LET c2 == ScanDigitsAndDots(data, start)
                 ipv4 == TryParseIPv4(Slice(data, start, c2 - start))
             IN  IF c2 < size /\ At(data, c2) # "/"
                 THEN IPv6Fail(s, "IPv4 format can only be used for the final 2 quibbles.")
                 ELSE IF ~ipv4.ok THEN IPv6Fail(s, ipv4.error)
                 ELSE IPv6Loop(data,
                        [s EXCEPT !.c = c2,
                                  !.first_address =
                                      IF s.first_quibble_count = -1
                                      THEN ShiftInIPv4(s.first_address, ipv4.address)
                                      ELSE s.first_address,
                                  !.second_address =
                                      IF s.first_quibble_count = -1
                                      THEN s.second_address
                                      ELSE ShiftInIPv4(s.second_address, ipv4.address),
                                  !.parsed_quibble_count = s.parsed_quibble_count + 2])
        ELSE IF c < size /\ At(data, c) # ":" /\ At(data, c) # "/"
        THEN IPv6Fail(s, "Unexpected character found")
        ELSE
        LET s1 == IF len > 0
                  THEN [s EXCEPT !.first_address =
                                     IF s.first_quibble_count = -1
                                     THEN parseQuibble(s.first_address, Slice(data, start, len))
                                     ELSE s.first_address,
                                 !.second_address =
                                     IF s.first_quibble_count = -1
                                     THEN s.second_address
                                     ELSE parseQuibble(s.second_address, Slice(data, start, len)),
                                 !.parsed_quibble_count = s.parsed_quibble_count + 1]
                  ELSE s
            double == c + 1 < size /\ At(data, c) = ":" /\ At(data, c + 1) = ":"
        IN  IF double /\ s1.first_quibble_count # -1
            THEN IPv6Fail(s1, "Encountered more than one double-colon")
            ELSE IF double /\ c + 2 < size /\ At(data, c + 2) = ":"
            THEN IPv6Fail(s1, "Encountered more than two consecutive colons")
            ELSE
            LET s2 == IF double
                      THEN [s1 EXCEPT !.first_quibble_count = s1.parsed_quibble_count,
                                      !.c = c + 1]
                      ELSE [s1 EXCEPT !.c = c]
            IN  IF s2.c < size /\ At(data, s2.c) = "/"
                THEN IPv6ParseMask(data, s2)
                ELSE IPv6Loop(data, [s2 EXCEPT !.c = s2.c + 1])

TryParseIPv6(data) ==
    LET s == IPv6Loop(data, IPv6LoopStart)
        missing_quibbles == IPV6_NUM_QUIBBLE - s.parsed_quibble_count
        shift_quibbles == IPV6_NUM_QUIBBLE - s.first_quibble_count
    IN  IF s.error # "" THEN IPAddressError(s.error)
        ELSE IF s.parsed_quibble_count < IPV6_NUM_QUIBBLE /\ s.first_quibble_count = -1
        THEN IPAddressError("Expected 8 sets of 4 hex digits.")
        ELSE IF s.c < Len(data) THEN IPAddressError("Unexpected extra characters")
        ELSE IF s.first_quibble_count # -1
        THEN IF missing_quibbles = 0
             THEN IPAddressError("Invalid double-colon, too many hex digits.")
             ELSE Parsed(IP_ADDRESS_V6,
                         Or128(ShiftLeftQuibbles(s.first_address, shift_quibbles),
                               s.second_address),
                         s.mask)
        ELSE Parsed(IP_ADDRESS_V6, s.first_address, s.mask)

\* IPAddress::TryParse
TryParse(data) ==
    LET size == Len(data)
        c == ScanHex(data, 0)
    IN  IF c = size THEN IPAddressError("Expected an IP address")
        ELSE IF At(data, c) = ":" THEN TryParseIPv6(data)
        ELSE IF c = 0 THEN IPAddressError("Expected a number")
        ELSE IF At(data, c) = "." THEN TryParseIPv4(data)
        ELSE IPAddressError("Expected an IP address")

----------------------------------------------------------------------------
(* ToString *)

\* to_string of an unsigned number, and a uint16_t written under std::dec
RECURSIVE Dec(_)
Dec(n) == IF n < 10 THEN <<DecDigits[n + 1]>> ELSE Dec(n \div 10) \o <<DecDigits[(n % 10) + 1]>>

\* a uint16_t written under std::hex
RECURSIVE Hex(_)
Hex(n) ==
    IF n < 16 THEN <<LowerHexDigits[n + 1]>>
    ELSE Hex(n \div 16) \o <<LowerHexDigits[(n % 16) + 1]>>

\* (address >> (3 - i) * 8) & 0xFF, i in 0..3
ByteOf(address, i) ==
    LET q == address[IF i < 2 THEN 7 ELSE 8]
    IN  IF i % 2 = 0 THEN q \div 256 ELSE q % 256

\* address & 0xffffffff
Low32(address) == [i \in 1..IPV6_NUM_QUIBBLE |-> IF i >= 7 THEN address[i] ELSE 0]

\* mask is a uint8_t parameter
ToStringIPv4(address, mask) ==
    Dec(ByteOf(address, 0)) \o <<".">> \o Dec(ByteOf(address, 1)) \o <<".">>
        \o Dec(ByteOf(address, 2)) \o <<".">> \o Dec(ByteOf(address, 3))
        \o (IF mask % 256 # IPV4_DEFAULT_MASK THEN <<"/">> \o Dec(mask % 256) ELSE <<>>)

\* Seeded fault for C12: a run as long as the longest so far replaces it, so
\* that of equal runs the last one wins
RECURSIVE FindZeroRun_lastwins(_, _, _)
FindZeroRun_lastwins(quibbles, i, s) ==
    IF i = IPV6_NUM_QUIBBLE
    THEN IF s.this_zero_start # IPV6_NUM_QUIBBLE
            /\ IPV6_NUM_QUIBBLE - s.this_zero_start > 1
            /\ IPV6_NUM_QUIBBLE - s.this_zero_start >= s.zero_run
         THEN [s EXCEPT !.zero_run = IPV6_NUM_QUIBBLE - s.this_zero_start,
                        !.zero_start = s.this_zero_start]
         ELSE s
    ELSE IF quibbles[i + 1] = 0 /\ s.this_zero_start = IPV6_NUM_QUIBBLE
    THEN FindZeroRun_lastwins(quibbles, i + 1, [s EXCEPT !.this_zero_start = i])
    ELSE IF quibbles[i + 1] # 0 /\ s.this_zero_start # IPV6_NUM_QUIBBLE
    THEN LET this_run == i - s.this_zero_start
         IN  FindZeroRun_lastwins(quibbles, i + 1,
                IF this_run > 1 /\ this_run >= s.zero_run
                THEN [zero_run |-> this_run, zero_start |-> s.this_zero_start,
                      this_zero_start |-> IPV6_NUM_QUIBBLE]
                ELSE [s EXCEPT !.this_zero_start = IPV6_NUM_QUIBBLE])
    ELSE FindZeroRun_lastwins(quibbles, i + 1, s)

\* The first loop of ToStringIPv6, from index i on: the longest run of zero
\* quibbles, s = [zero_run, zero_start, this_zero_start]
RECURSIVE FindZeroRun(_, _, _)
FindZeroRun(quibbles, i, s) ==
    IF i = IPV6_NUM_QUIBBLE
    THEN \* a zero run through the end of the address
         IF s.this_zero_start # IPV6_NUM_QUIBBLE
            /\ IPV6_NUM_QUIBBLE - s.this_zero_start > 1
            /\ IPV6_NUM_QUIBBLE - s.this_zero_start > s.zero_run
         THEN [s EXCEPT !.zero_run = IPV6_NUM_QUIBBLE - s.this_zero_start,
                        !.zero_start = s.this_zero_start]
         ELSE s
    ELSE IF quibbles[i + 1] = 0 /\ s.this_zero_start = IPV6_NUM_QUIBBLE
    THEN FindZeroRun(quibbles, i + 1, [s EXCEPT !.this_zero_start = i])
    ELSE IF quibbles[i + 1] # 0 /\ s.this_zero_start # IPV6_NUM_QUIBBLE
    THEN LET this_run == i - s.this_zero_start
         IN  FindZeroRun(quibbles, i + 1,
                IF this_run > 1 /\ this_run > s.zero_run
                THEN [zero_run |-> this_run, zero_start |-> s.this_zero_start,
                      this_zero_start |-> IPV6_NUM_QUIBBLE]
                ELSE [s EXCEPT !.this_zero_start = IPV6_NUM_QUIBBLE])
    ELSE FindZeroRun(quibbles, i + 1, s)

\* The condition under which the last two quibbles are written as an IPv4 address
UseIPv4Form(quibbles, i, zero_start, zero_end) ==
    \/ i = 6 /\ zero_start = 0 /\ zero_end = 6 /\ quibbles[8] # 1
    \/ i = 6 /\ zero_start = 0 /\ zero_end = 5 /\ quibbles[6] = 65535
    \/ i = 6 /\ zero_start = 0 /\ zero_end = 4 /\ quibbles[5] = 65535 /\ quibbles[6] = 0

\* The second loop of ToStringIPv6, from index i on, appended to out
RECURSIVE RenderQuibbles(_, _, _, _, _)
RenderQuibbles(quibbles, zero_start, zero_end, i, out) ==
    IF i >= IPV6_NUM_QUIBBLE THEN out
    ELSE
    LET out1 == IF i > 0 THEN out \o <<":">> ELSE out
    IN  IF i < zero_end /\ i >= zero_start
        THEN LET out2 == IF i = 0 THEN out1 \o <<":">> ELSE out1
                 i2 == zero_end - 1
                 out3 == IF i2 = IPV6_NUM_QUIBBLE - 1 THEN out2 \o <<":">> ELSE out2
             IN  RenderQuibbles(quibbles, zero_start, zero_end, i2 + 1, out3)
        ELSE IF UseIPv4Form(quibbles, i, zero_start, zero_end)
        THEN out1 \o ToStringIPv4(Low32(quibbles), IPV4_DEFAULT_MASK)
        ELSE RenderQuibbles(quibbles, zero_start, zero_end, i + 1, out1 \o Hex(quibbles[i + 1]))

ToStringIPv6(addr) ==
    LET quibbles == addr.address
        s == FindZeroRun(quibbles, 0,
                [zero_run |-> 0, zero_start |-> 0, this_zero_start |-> IPV6_NUM_QUIBBLE])
        zero_end == s.zero_start + s.zero_run
    IN  RenderQuibbles(quibbles, s.zero_start, zero_end, 0, <<>>)
            \o (IF addr.mask # IPV6_DEFAULT_MASK THEN <<"/">> \o Dec(addr.mask) ELSE <<>>)

\* IPAddress::ToString, for the two types that do not throw
ToString(addr) ==
    IF addr.type = IP_ADDRESS_V4 THEN ToStringIPv4(addr.address, addr.mask)
    ELSE ToStringIPv6(addr)

----------------------------------------------------------------------------
(* 128-bit arithmetic of the host: hugeint_t is the two's complement reading *)
(* of the 8 quibbles, uhugeint_t the unsigned one.                           *)

\* the carry out of quibbles i..8 of x + y, and the borrow out of x - y
RECURSIVE CarryOut(_, _, _)
CarryOut(x, y, i) ==
    IF i > IPV6_NUM_QUIBBLE THEN 0 ELSE (x[i] + y[i] + CarryOut(x, y, i + 1)) \div 65536

RECURSIVE BorrowOut(_, _, _)
BorrowOut(x, y, i) ==
    IF i > IPV6_NUM_QUIBBLE THEN 0
    ELSE IF x[i] - y[i] - BorrowOut(x, y, i + 1) < 0 THEN 1 ELSE 0

\* x + y and x - y modulo 2^128
Sum128(x, y) ==
    [i \in 1..IPV6_NUM_QUIBBLE |-> (x[i] + y[i] + CarryOut(x, y, i + 1)) % 65536]
Diff128(x, y) ==
    [i \in 1..IPV6_NUM_QUIBBLE |-> (x[i] - y[i] - BorrowOut(x, y, i + 1) + 65536) % 65536]

\* x ^ (uhugeint_t(1) << 127)
FlipTopBit(x) == [x EXCEPT ![1] = (x[1] + 32768) % 65536]

One128 == [i \in 1..IPV6_NUM_QUIBBLE |-> IF i = IPV6_NUM_QUIBBLE THEN 1 ELSE 0]
MinHugeint == [i \in 1..IPV6_NUM_QUIBBLE |-> IF i = 1 THEN 32768 ELSE 0]

\* val < 0 on a hugeint_t
IsNegative(val) == val[1] >= 32768

\* The value or the exception of a host operation
Value(v) == [ok |-> TRUE, value |-> v, error |-> ""]
Throw(error) == [ok |-> FALSE, value |-> Zero128, error |-> error]

\* AddOperatorOverflowCheck::Operation<uhugeint_t, uhugeint_t, uhugeint_t>
AddOperatorOverflowCheck(left, right) ==
    IF CarryOut(left, right, 1) = 1 THEN Throw("OutOfRangeException")
    ELSE Value(Sum128(left, right))

\* SubtractOperatorOverflowCheck::Operation<uhugeint_t, uhugeint_t, uhugeint_t>
SubtractOperatorOverflowCheck(left, right) ==
    IF BorrowOut(left, right, 1) = 1 THEN Throw("OutOfRangeException")
    ELSE Value(Diff128(left, right))

\* NumericCast::Operation<hugeint_t, uhugeint_t>
NumericCast(val) == IF IsNegative(val) THEN Throw("InternalException") ELSE Value(val)

\* -val on a hugeint_t: the minimum has no negation
Negate(val) ==
    IF val = MinHugeint THEN Throw("OutOfRangeException")
    ELSE Value(Diff128(Zero128, val))

----------------------------------------------------------------------------
(* inet_functions.cpp.  The sources hold three revisions of it.             *)

REV_UNSIGNED == "unsigned address"         \* INET_TYPE stores a uhugeint_t
REV_COMPAT == "compatible address"         \* stores the hugeint_t of to_compat_addr
REV_RANGE == "compatible address, IPv4 range check"
Revisions == {REV_UNSIGNED, REV_COMPAT, REV_RANGE}

\* Seeded faults for C2 and C4: the stored form taken for the address, and
\* the address stored as it is
from_compat_addr_unflipped(compat_addr, addr_type) == compat_addr
to_compat_addr_unflipped(new_addr, addr_type) == new_addr

from_compat_addr(compat_addr, addr_type) ==
    IF addr_type = IP_ADDRESS_V6 THEN FlipTopBit(compat_addr) ELSE compat_addr

to_compat_addr(new_addr, addr_type) ==
    IF addr_type = IP_ADDRESS_V6 THEN FlipTopBit(new_addr) ELSE new_addr

INET_TYPE(a, b, c) == [a_val |-> a, b_val |-> b, c_val |-> c]

Returned(r) == [ok |-> TRUE, result |-> r, error |-> ""]
Thrown(error) == [ok |-> FALSE, result |-> INET_TYPE(IP_ADDRESS_INVALID, Zero128, 0), error |-> error]

\* add_implementation of the revision that stores the address unsigned
add_implementation_unsigned(ip, val) ==
    IF ~IsNegative(val)
    THEN LET operand == NumericCast(val)
             sum == AddOperatorOverflowCheck(ip.b_val, operand.value)
         IN  IF ~operand.ok THEN Thrown(operand.error)
             ELSE IF ~sum.ok THEN Thrown(sum.error)
             ELSE Returned(INET_TYPE(ip.a_val, sum.value, ip.c_val))
    ELSE LET negated == Negate(val)
             operand == NumericCast(negated.value)
             diff == SubtractOperatorOverflowCheck(ip.b_val, operand.value)
         IN  IF ~negated.ok THEN Thrown(negated.error)
             ELSE IF ~operand.ok THEN Thrown(operand.error)
             ELSE IF ~diff.ok THEN Thrown(diff.error)
             ELSE Returned(INET_TYPE(ip.a_val, diff.value, ip.c_val))

\* add_implementation of the revision that stores to_compat_addr, without the
\* IPv4 range check
add_implementation_compat(ip, val) ==
    LET addr_type == ip.a_val
    IN  IF ~IsNegative(val)
        THEN LET operand == NumericCast(val)
                 sum == AddOperatorOverflowCheck(from_compat_addr(ip.b_val, addr_type),
                                                 operand.value)
             IN  IF ~operand.ok THEN Thrown(operand.error)
                 ELSE IF ~sum.ok THEN Thrown(sum.error)
                 ELSE Returned(INET_TYPE(ip.a_val, to_compat_addr(sum.value, addr_type),
                                         ip.c_val))
        ELSE LET negated == Negate(val)
                 operand == NumericCast(negated.value)
                 diff == SubtractOperatorOverflowCheck(from_compat_addr(ip.b_val, addr_type),
                                                       operand.value)
             IN  IF ~negated.ok THEN Thrown(negated.error)
                 ELSE IF ~operand.ok THEN Thrown(operand.error)
                 ELSE IF ~diff.ok THEN Thrown(diff.error)
                 ELSE Returned(INET_TYPE(ip.a_val, to_compat_addr(diff.value, addr_type),
                                         ip.c_val))

\* address_out >= (uhugeint_t(1) << IPAddress::IPV4_DEFAULT_MASK)
OutsideIPv4(address_out) == \E i \in 1..6 : address_out[i] # 0

\* Seeded fault for C14: result.c_val not set from ip.c_val, and no fast path
add_implementation_maskless(ip, val) ==
    [add_implementation_compat(ip, val) EXCEPT !.result.c_val = 0]

\* add_implementation of the revision with the zero fast path and the IPv4
\* range check
add_implementation(ip, val) ==
    IF val = Zero128 THEN Returned(ip)
    ELSE
    LET addr_type == ip.a_val
        address_in == from_compat_addr(ip.b_val, addr_type)
        negated == Negate(val)
        operand == NumericCast(IF ~IsNegative(val) THEN val ELSE negated.value)
        address_out == IF ~IsNegative(val)
                       THEN AddOperatorOverflowCheck(address_in, operand.value)
                       ELSE SubtractOperatorOverflowCheck(address_in, operand.value)
    IN  IF IsNegative(val) /\ ~negated.ok THEN Thrown(negated.error)
        ELSE IF ~operand.ok THEN Thrown(operand.error)
        ELSE IF ~address_out.ok THEN Thrown(address_out.error)
        ELSE IF addr_type = IP_ADDRESS_V4 /\ OutsideIPv4(address_out.value)
        THEN Thrown("OutOfRangeException")
        ELSE Returned(INET_TYPE(ip.a_val, to_compat_addr(address_out.value, addr_type),
                                ip.c_val))

AddImplementationOf(r, ip, val) ==
    IF r = REV_UNSIGNED THEN add_implementation_unsigned(ip, val)
    ELSE IF r = REV_COMPAT THEN add_implementation_compat(ip, val)
    ELSE add_implementation(ip, val)

\* INetFunctions::Add and INetFunctions::Subtract on one row
AddRow(r, ip, val) == AddImplementationOf(r, ip, val)
SubtractRow(r, ip, val) ==
    LET negated == Negate(val)
    IN  IF ~negated.ok THEN Thrown(negated.error)
        ELSE AddImplementationOf(r, ip, negated.value)

\* One row of CastVarcharToINET: null for a null input and for a text that
\* does not parse
NullRow == [null |-> TRUE, a_val |-> IP_ADDRESS_INVALID, b_val |-> Zero128, c_val |-> 0]
NULL == <<"N", "U", "L", "L", " ", "v", "a", "l", "u", "e">>

StoredRow(r, valid, inet) ==
    IF ~valid \/ ~inet.ok THEN NullRow
    ELSE [null |-> FALSE, a_val |-> inet.type,
          b_val |-> IF r = REV_UNSIGNED THEN inet.address
                    ELSE to_compat_addr(inet.address, inet.type),
          c_val |-> inet.mask]

CastRow(r, entry) == StoredRow(r, entry # NULL, TryParse(entry))

----------------------------------------------------------------------------
(* The inputs of the codec: texts described by their shape, and values *)

MaxGroups == 5
MaxItems == 9
NumPalettes == 2

NoShape == [family |-> "none"]
NoValue == [type |-> IP_ADDRESS_INVALID]
NoResult == [ok |-> FALSE, error |-> "not run", type |-> IP_ADDRESS_INVALID,
             address |-> Zero128, mask |-> 0]

\* A component of a text: how it is written (tok) and the quibbles or the
\* octet it stands for (vals)
HexItem(v) == [kind |-> "hex", tok |-> Hex(v), vals |-> <<v>>]
WrittenItem(tok, v) == [kind |-> "hex", tok |-> tok, vals |-> <<v>>]
V4Item(a, b, c, d) ==
    [kind |-> "v4",
     tok |-> Dec(a) \o <<".">> \o Dec(b) \o <<".">> \o Dec(c) \o <<".">> \o Dec(d),
     vals |-> <<a * 256 + b, c * 256 + d>>]
GroupItem(v) == [kind |-> "dec", tok |-> Dec(v), vals |-> <<v>>]
EmptyItem == [kind |-> "empty", tok |-> <<>>, vals |-> <<>>]

NoMask == [present |-> FALSE, tok |-> <<>>, val |-> -1]
MaskOf(n) == [present |-> TRUE, tok |-> <<"/">> \o Dec(n), val |-> n]
EmptyMask == [present |-> TRUE, tok |-> <<"/">>, val |-> -1]

RECURSIVE Repeat(_, _)
Repeat(ch, n) == IF n = 0 THEN <<>> ELSE <<ch>> \o Repeat(ch, n - 1)

\* a decimal group written with zeros before its digits
PaddedItem(zeros, v) == [kind |-> "padded", tok |-> Repeat("0", zeros) \o Dec(v), vals |-> <<v>>]

SepChar(shape_) == IF shape_.family = "v4" THEN "." ELSE ":"

\* The text of a shape: seps[1] separators, then each item followed by its
\* separators, then the mask and the trailing text
RECURSIVE RenderItems(_, _)
RenderItems(shape_, i) ==
    IF i > Len(shape_.items) THEN <<>>
    ELSE shape_.items[i].tok \o Repeat(SepChar(shape_), shape_.seps[i + 1])
            \o RenderItems(shape_, i + 1)

Render(shape_) ==
    Repeat(SepChar(shape_), shape_.seps[1]) \o RenderItems(shape_, 1)
        \o shape_.mask.tok \o shape_.trail

\* The quibbles (or octets) the items i..j of a shape stand for
RECURSIVE ValsOf(_, _, _)
ValsOf(items, i, j) == IF i > j THEN <<>> ELSE items[i].vals \o ValsOf(items, i + 1, j)

\* separators of a well-formed text with n items: none before, one between
PlainSeps(n) == [i \in 1..(n + 1) |-> IF i = 1 \/ i = n + 1 THEN 0 ELSE 1]

\* --- IPv4 texts: up to MaxGroups groups, a mask or none, trailing text or none
GroupItems == {GroupItem(9), GroupItem(255), GroupItem(256)}
OctetItems == {GroupItem(0), GroupItem(1), GroupItem(255)}
V4Masks == {NoMask, MaskOf(0), MaskOf(24), MaskOf(32), MaskOf(33), EmptyMask}
V4Trails == {<<>>, <<"x">>}

V4Groups ==
    UNION {[1..n -> GroupItems] : n \in 1..MaxGroups}
        \cup [1..4 -> OctetItems]
        \cup {[i \in 1..4 |-> IF i = p THEN EmptyItem ELSE GroupItem(9)] : p \in 1..4}

V4Shapes ==
    {[family |-> "v4", items |-> g, seps |-> PlainSeps(Len(g)), mask |-> m, trail |-> t] :
        g \in V4Groups, m \in V4Masks, t \in V4Trails}

\* Four groups, some written with leading zeros
PaddedItems ==
    {GroupItem(0), GroupItem(10), PaddedItem(1, 0), PaddedItem(1, 1), PaddedItem(1, 10),
     PaddedItem(2, 7)}
V4PaddedShapes ==
    {[family |-> "v4", items |-> g, seps |-> PlainSeps(4), mask |-> m, trail |-> <<>>] :
        g \in [1..4 -> PaddedItems], m \in {NoMask, MaskOf(24)}}

\* --- IPv6 texts
\* The quibbles a text is written with: item i of a text of palette p is
\* QuibbleItems[((i + 7 * p - 1) % Len(QuibbleItems)) + 1]
QuibbleItems ==
    <<HexItem(1), HexItem(2), HexItem(3), HexItem(4), HexItem(5), HexItem(6), HexItem(7),
      HexItem(8), HexItem(9), HexItem(10), HexItem(11),
      HexItem(65535), HexItem(0), WrittenItem(<<"0", "d", "b", "8">>, 3512),
      WrittenItem(<<"A", "b", "C", "d">>, 43981), HexItem(4660), WrittenItem(<<"0", "0">>, 0),
      HexItem(32768), HexItem(255), HexItem(256), HexItem(1), HexItem(61440)>>

PaletteItem(p, i) == QuibbleItems[((i + 7 * p - 1) % Len(QuibbleItems)) + 1]

V4Tails == {V4Item(1, 2, 3, 4), V4Item(255, 255, 255, 255), V4Item(0, 0, 0, 0)}

\* n items of palette p; with a tail, the last item is the dotted IPv4 form
V6Items(n, p, tail) ==
    [i \in 1..n |-> IF i = n /\ tail.kind = "v4" THEN tail ELSE PaletteItem(p, i)]

\* The separators of n items with the separators at a and b written with va
\* and vb colons (the colons before the first item and after the last count
\* as separators 1 and n + 1)
SepsWith(n, a, va, b, vb) ==
    [i \in 1..(n + 1) |-> IF i = a THEN va ELSE IF i = b THEN vb ELSE PlainSeps(n)[i]]

SepConfigs(n) ==
    {sp \in {SepsWith(n, a, va, b, vb) :
                a \in 1..(n + 1), b \in 1..(n + 1), va \in 0..3, vb \in 0..3} :
        \A i \in 2..n : sp[i] >= 1}

\* Every placing of colons in which at most two separators are not plain,
\* without mask, with and without a dotted tail
V6ColonShapes ==
    UNION {{[family |-> "v6", items |-> V6Items(n, 0, tail), seps |-> sp, mask |-> NoMask,
             trail |-> <<>>] :
               tail \in {EmptyItem, V4Item(1, 2, 3, 4)}, sp \in SepConfigs(n)} :
           n \in 0..MaxItems}

\* Texts with at most one '::' and no other colon out of place, with every
\* mask and trailing text
V6Masks == {NoMask, MaskOf(0), MaskOf(64), MaskOf(128), MaskOf(129), EmptyMask}
V6Trails == {<<>>, <<"x">>}

OneDoubleColon(n) == {SepsWith(n, a, 2, a, 2) : a \in 1..(n + 1)}

V6MaskShapes ==
    UNION {{[family |-> "v6", items |-> V6Items(n, p, tail), seps |-> sp, mask |-> m,
             trail |-> t] :
               p \in 0..(NumPalettes - 1), tail \in {EmptyItem} \cup V4Tails,
               sp \in OneDoubleColon(n) \cup {PlainSeps(n)}, m \in V6Masks, t \in V6Trails} :
           n \in 1..IPV6_NUM_QUIBBLE}

Shapes == V4Shapes \cup V4PaddedShapes \cup V6ColonShapes \cup V6MaskShapes

\* --- Values handed to ToString: valid addresses of both types
NumQuibbleVals == 3
QuibbleVals == <<0, 65535, 1, 258, 43981>>
LowQuibbles == {QuibbleVals[i] : i \in 1..NumQuibbleVals}
HighQuibbles == {0, 2748}

V6Values ==
    {[type |-> IP_ADDRESS_V6, address |-> hi \o lo, mask |-> m] :
        hi \in [1..4 -> HighQuibbles], lo \in [1..4 -> LowQuibbles], m \in {0, 64, 128}}

V4Values ==
    {[type |-> IP_ADDRESS_V4,
      address |-> Widen32(<<o[1] * 256 + o[2], o[3] * 256 + o[4]>>), mask |-> m] :
        o \in [1..4 -> {0, 9, 255}], m \in {0, 24, 32}}

Values == V4Values \cup V6Values

----------------------------------------------------------------------------
(* The codec as a state machine: a text is parsed; a value is written as    *)
(* text and the text parsed back.                                           *)

NoRevision == "none"
NoRow == INET_TYPE(IP_ADDRESS_INVALID, Zero128, 0)
NoCall == [op |-> "none", ip |-> NoRow, val |-> Zero128, ok |-> FALSE, error |-> "",
           result |-> NoRow]
NoBatch == [constant |-> FALSE, entries |-> <<>>]
NoRows == [vector_type |-> "none", data |-> <<>>, success |-> FALSE]

Init ==
    /\ result = NoResult
    /\ rev = NoRevision /\ current = NoRow /\ last = NoCall /\ nops = 0
    /\ source = NoBatch /\ rows = NoRows
    /\ \/ /\ shape \in Shapes
          /\ input = Render(shape)
          /\ value = NoValue
          /\ pc = "text"
       \/ /\ value \in Values
          /\ shape = NoShape
          /\ input = <<>>
          /\ pc = "value"

\* CastINETToVarchar's use of the core: the value written as text
DoToString ==
    /\ pc = "value"
    /\ input' = ToString(value)
    /\ pc' = "text"
    /\ UNCHANGED <<shape, value, result, rev, arith, casts>>

\* IPAddress::TryParse on the text
DoTryParse ==
    /\ pc = "text"
    /\ result' = TryParse(input)
    /\ pc' = "parsed"
    /\ UNCHANGED <<shape, input, value, rev, arith, casts>>

Next == DoToString \/ DoTryParse

Spec == Init /\ [][Next]_vars

----------------------------------------------------------------------------
(* The offset arithmetic as a state machine: a row cast from a text, then   *)
(* Add and Subtract calls on it.  A call that throws leaves the row.        *)

MaxOps == 2

\* The text of an IPv6 address written in full, and of an IPv4 address
FullText(q) ==
    Render([family |-> "v6", items |-> [i \in 1..IPV6_NUM_QUIBBLE |-> HexItem(q[i])],
            seps |-> PlainSeps(IPV6_NUM_QUIBBLE), mask |-> NoMask, trail |-> <<>>])
DottedText(a, b, c, d) == V4Item(a, b, c, d).tok

Top(q) == [i \in 1..IPV6_NUM_QUIBBLE |-> IF i = 1 THEN q ELSE 0]
Ones == [i \in 1..IPV6_NUM_QUIBBLE |-> 65535]

ArithTexts ==
    {DottedText(0, 0, 0, 0), DottedText(0, 0, 0, 1), DottedText(0, 0, 255, 255),
     DottedText(255, 255, 255, 254), DottedText(255, 255, 255, 255),
     DottedText(10, 0, 0, 1) \o <<"/", "2", "4">>,
     FullText(Zero128), FullText(One128), FullText(Widen32(<<0, 65535>>)),
     FullText([Ones EXCEPT ![1] = 32767]), FullText(Top(32768)),
     FullText([Ones EXCEPT ![8] = 65534]), FullText(Ones),
     FullText(Top(32768)) \o <<"/", "6", "4">>}

\* -val in two's complement, for writing the negative operands
Minus(val) == Diff128(Zero128, val)
MaxHugeint == [Ones EXCEPT ![1] = 32767]
Deltas ==
    {Zero128, One128, Minus(One128), Widen32(<<1, 0>>), Minus(Widen32(<<1, 0>>)),
     Widen32(<<65535, 65535>>), MaxHugeint, Minus(MaxHugeint), MinHugeint}

\* The INET_TYPE of a row that is not null
RowOf(row) == INET_TYPE(row.a_val, row.b_val, row.c_val)

ArithInit ==
    /\ pc = "row"
    /\ rev \in Revisions
    /\ \E text \in ArithTexts : current = RowOf(CastRow(rev, text))
    /\ last = NoCall /\ nops = 0
    /\ shape = NoShape /\ input = <<>> /\ value = NoValue /\ result = NoResult
    /\ source = NoBatch /\ rows = NoRows

Call(op, val, r) ==
    /\ last' = [op |-> op, ip |-> current, val |-> val, ok |-> r.ok, error |-> r.error,
                result |-> r.result]
    /\ current' = IF r.ok THEN r.result ELSE current
    /\ nops' = nops + 1
    /\ UNCHANGED <<pc, rev, codec, casts>>

Add ==
    /\ pc = "row" /\ nops < MaxOps
    /\ \E val \in Deltas : Call("Add", val, AddRow(rev, current, val))

Subtract ==
    /\ pc = "row" /\ nops < MaxOps
    /\ \E val \in Deltas : Call("Subtract", val, SubtractRow(rev, current, val))

ArithNext == Add \/ Subtract

ArithSpec == ArithInit /\ [][ArithNext]_vars

----------------------------------------------------------------------------
(* The casts as a state machine: a batch of texts and nulls is cast to INET *)
(* rows, and the rows are cast back to texts.                               *)

MaxRows == 2

CastTexts ==
    {NULL, <<>>, DottedText(1, 2, 3, 4) \o <<"x">>,
     DottedText(0, 0, 0, 0), DottedText(10, 0, 0, 1), DottedText(255, 255, 255, 255),
     DottedText(10, 0, 0, 1) \o <<"/", "2", "4">>,
     FullText(Zero128), FullText(One128), FullText([Ones EXCEPT ![1] = 32767]),
     FullText(Top(32768)), FullText(Ones)}

Batches ==
    {[constant |-> TRUE, entries |-> <<e>>] : e \in CastTexts}
        \cup {[constant |-> FALSE, entries |-> es] :
                es \in UNION {[1..n -> CastTexts] : n \in 0..MaxRows}}

CastInit ==
    /\ pc = "batch"
    /\ rev \in Revisions
    /\ source \in Batches
    /\ rows = NoRows
    /\ current = NoRow /\ last = NoCall /\ nops = 0
    /\ shape = NoShape /\ input = <<>> /\ value = NoValue /\ result = NoResult

\* Seeded fault for C15: success also set to false for a null input row
ResultVector_nullfails(constant, entries, data) ==
    [vector_type |-> IF constant THEN "CONSTANT_VECTOR" ELSE "FLAT_VECTOR",
     data |-> data,
     success |-> \A i \in DOMAIN data : ~data[i].null]

\* The result vector of CastVarcharToINET: success is false when a row that
\* is not null did not parse
ResultVector(constant, entries, data) ==
    [vector_type |-> IF constant THEN "CONSTANT_VECTOR" ELSE "FLAT_VECTOR",
     data |-> data,
     success |-> \A i \in DOMAIN data : data[i].null => entries[i] = NULL]

\* INetFunctions::CastVarcharToINET on the batch
CastVarcharToINET ==
    /\ pc = "batch"
    /\ rows' = ResultVector(source.constant, source.entries,
                            [i \in DOMAIN source.entries |-> CastRow(rev, source.entries[i])])
    /\ pc' = "rows"
    /\ UNCHANGED <<rev, source, codec, arith>>

\* The text of one row in INetFunctions::CastINETToVarchar
RowText(r, row) ==
    IF row.null THEN NULL
    ELSE ToString([type |-> row.a_val,
                   address |-> IF r = REV_UNSIGNED THEN row.b_val
                               ELSE from_compat_addr(row.b_val, row.a_val),
                   mask |-> row.c_val])

\* INetFunctions::CastINETToVarchar on the rows
CastINETToVarchar ==
    /\ pc = "rows"
    /\ source' = [constant |-> rows.vector_type = "CONSTANT_VECTOR",
                  entries |-> [i \in 1..Len(rows.data) |-> RowText(rev, rows.data[i])]]
    /\ pc' = "texts"
    /\ UNCHANGED <<rev, rows, codec, arith>>

CastNext == CastVarcharToINET \/ CastINETToVarchar

CastSpec == CastInit /\ [][CastNext]_vars

----------------------------------------------------------------------------
(* What a shape says about its text *)

NumItems == Len(shape.items)
IPv4Text == shape.family = "v4"
\* an IPv6 text has a colon (without one, a dotted tail alone is an IPv4 text)
IPv6Text == shape.family = "v6" /\ \E i \in DOMAIN shape.seps : shape.seps[i] > 0

\* the quibbles the text supplies, a dotted IPv4 counting as 2
SuppliedQuibbles == ValsOf(shape.items, 1, NumItems)

DoubleColons == {i \in DOMAIN shape.seps : shape.seps[i] = 2}
TripleColons == {i \in DOMAIN shape.seps : shape.seps[i] = 3}
\* a single ':' before the first item or after the last one
StrayColons == {i \in {1, NumItems + 1} : shape.seps[i] = 1}

HasDottedTail == NumItems > 0 /\ shape.items[NumItems].kind = "v4"

\* no mask, or '/n' with n in 0..max
MaskWithin(max) == ~shape.mask.present \/ shape.mask.val \in 0..max
MaskValue(default) == IF shape.mask.present THEN shape.mask.val ELSE default

\* The address of a text with one '::' at separator p, or with none (p = 0)
Zeros(n) == [i \in 1..n |-> 0]
Expanded(p) ==
    IF p = 0 THEN SuppliedQuibbles
    ELSE ValsOf(shape.items, 1, p - 1)
            \o Zeros(IPV6_NUM_QUIBBLE - Len(SuppliedQuibbles))
            \o ValsOf(shape.items, p, NumItems)

----------------------------------------------------------------------------
(* Claims on the codec *)

\* C1: a valid value written by ToString and parsed back by TryParse is the
\* same value: same type, same address, same mask.
C1_RoundTrip ==
    (pc = "parsed" /\ value # NoValue)
        => result = Parsed(value.type, value.address, value.mask)

\* C1 witness: an IPv6 value written with '::' and a dotted IPv4 tail and a
\* mask has been parsed back
C1_Witness ==
    /\ pc = "parsed" /\ value # NoValue /\ value.type = IP_ADDRESS_V6
    /\ "." \in Range(input) /\ "/" \in Range(input)
    /\ value.address[6] = 65535 /\ result.ok

\* C5: an IPv4 text with anything after the mask digits, or with anything but
\* '/' after the fourth group, is rejected.
C5_TrailingInputRejected ==
    (pc = "parsed" /\ IPv4Text /\ (shape.trail # <<>> \/ NumItems > 4)) => ~result.ok

\* C6: an IPv6 text without '::' is accepted only if it supplies exactly 8
\* quibbles, a dotted IPv4 tail counting as 2.
C6_EightQuibblesWithoutDoubleColon ==
    (pc = "parsed" /\ IPv6Text /\ DoubleColons = {} /\ result.ok)
        => Len(SuppliedQuibbles) = IPV6_NUM_QUIBBLE

\* C7: an accepted IPv6 text has no single ':' at its start or at its end.
C7_NoStrayColonAccepted ==
    (pc = "parsed" /\ IPv6Text /\ result.ok) => StrayColons = {}

\* C8: a dotted IPv4 tail after exactly 6 hex quibbles, or after fewer and one
\* '::', with or without '/n', n in 0..128, parses to the quibbles in order
\* with the IPv4 address in the low 32 bits and the mask n (128 without);
\* a dotted tail followed by other text is rejected.
C8_EmbeddedIPv4 ==
    (pc = "parsed" /\ IPv6Text /\ HasDottedTail /\ StrayColons = {} /\ TripleColons = {})
        => /\ ( /\ shape.trail = <<>> /\ MaskWithin(IPV6_DEFAULT_MASK)
                /\ \/ DoubleColons = {} /\ Len(SuppliedQuibbles) = IPV6_NUM_QUIBBLE
                   \/ /\ Cardinality(DoubleColons) = 1
                      /\ DoubleColons \subseteq 1..NumItems
                      /\ Len(SuppliedQuibbles) < IPV6_NUM_QUIBBLE )
              => result = Parsed(IP_ADDRESS_V6,
                                 Expanded(IF DoubleColons = {} THEN 0
                                          ELSE CHOOSE i \in DoubleColons : TRUE),
                                 MaskValue(IPV6_DEFAULT_MASK))
           /\ (shape.trail # <<>> \/ shape.seps[NumItems + 1] > 0) => ~result.ok

\* C9: a text with one '::', k quibbles before it and j after it, k + j <= 7,
\* parses to the k quibbles, 8 - k - j zero quibbles and the j quibbles; a
\* text with two or more '::', with ':::', or with '::' and 8 quibbles is
\* rejected.
C9_DoubleColonElision ==
    (pc = "parsed" /\ IPv6Text)
        => /\ ( /\ Cardinality(DoubleColons) = 1 /\ TripleColons = {} /\ StrayColons = {}
                /\ (HasDottedTail => DoubleColons \subseteq 1..NumItems)
                /\ Len(SuppliedQuibbles) <= IPV6_NUM_QUIBBLE - 1
                /\ shape.trail = <<>> /\ MaskWithin(IPV6_DEFAULT_MASK) )
              => result = Parsed(IP_ADDRESS_V6,
                                 Expanded(CHOOSE i \in DoubleColons : TRUE),
                                 MaskValue(IPV6_DEFAULT_MASK))
           /\ ( \/ Cardinality(DoubleColons) >= 2
                \/ TripleColons # {}
                \/ DoubleColons # {} /\ Len(SuppliedQuibbles) = IPV6_NUM_QUIBBLE )
              => ~result.ok

\* C9 witness: a text with quibbles on both sides of its '::' was accepted
C9_Witness ==
    /\ pc = "parsed" /\ IPv6Text /\ result.ok /\ ~HasDottedTail
    /\ \E i \in DoubleColons : 2 < i /\ i < NumItems
    /\ Len(SuppliedQuibbles) = IPV6_NUM_QUIBBLE - 1

\* C10: four groups in 0..255 with or without '/n', n in 0..32, parse to the
\* IPv4 address ((a*256+b)*256+c)*256+d with mask n (32 without); fewer than
\* four groups, an empty group, a group over 255, an empty mask or a mask over
\* 32 are rejected.
C10_IPv4Grammar ==
    (pc = "parsed" /\ IPv4Text)
        => /\ ( /\ NumItems = 4 /\ shape.trail = <<>> /\ MaskWithin(IPV4_DEFAULT_MASK)
                /\ \A i \in 1..4 : shape.items[i].kind = "dec" /\ shape.items[i].vals[1] <= 255 )
              => result = Parsed(IP_ADDRESS_V4,
                                 Zeros(6) \o <<shape.items[1].vals[1] * 256 + shape.items[2].vals[1],
                                               shape.items[3].vals[1] * 256 + shape.items[4].vals[1]>>,
                                 MaskValue(IPV4_DEFAULT_MASK))
           /\ ( \/ NumItems < 4
                \/ \E i \in 1..NumItems : shape.items[i].kind = "empty"
                \/ \E i \in 1..NumItems :
                      shape.items[i].kind = "dec" /\ shape.items[i].vals[1] > 255
                \/ shape.mask.present /\ shape.mask.val \notin 0..IPV4_DEFAULT_MASK )
              => ~result.ok

\* C10 witness: four groups with a mask were accepted
C10_Witness ==
    /\ pc = "parsed" /\ IPv4Text /\ result.ok /\ shape.mask.present /\ shape.trail = <<>>
    /\ shape.items[1].vals[1] = 255

Written == pc \in {"text", "parsed"} /\ value # NoValue

\* The runs of 2 or more zero quibbles of q, as <<first index, length>>, and
\* the longest of them, the first of the longest
ZeroRuns(q) ==
    {r \in (1..IPV6_NUM_QUIBBLE) \X (2..IPV6_NUM_QUIBBLE) :
        /\ r[1] + r[2] - 1 <= IPV6_NUM_QUIBBLE
        /\ \A i \in r[1]..(r[1] + r[2] - 1) : q[i] = 0
        /\ r[1] = 1 \/ q[r[1] - 1] # 0
        /\ r[1] + r[2] - 1 = IPV6_NUM_QUIBBLE \/ q[r[1] + r[2]] # 0}
BestRun(q) ==
    CHOOSE r \in ZeroRuns(q) :
        \A o \in ZeroRuns(q) : o[2] < r[2] \/ (o[2] = r[2] /\ o[1] >= r[1])

\* The quibbles a..b of q written in hex, or with the last two of the 8 as a
\* dotted IPv4 address (dotted), joined by single colons
RECURSIVE Groups(_, _, _, _)
Groups(q, a, b, dotted) ==
    IF a > b THEN <<>>
    ELSE IF dotted /\ a = IPV6_NUM_QUIBBLE - 1
    THEN Dec(q[7] \div 256) \o <<".">> \o Dec(q[7] % 256) \o <<".">>
            \o Dec(q[8] \div 256) \o <<".">> \o Dec(q[8] % 256)
    ELSE Hex(q[a]) \o (IF a < b THEN <<":">> ELSE <<>>) \o Groups(q, a + 1, b, dotted)

\* The text of the address q with its best run written as '::'
Compressed(q, dotted) ==
    IF ZeroRuns(q) = {} THEN Groups(q, 1, IPV6_NUM_QUIBBLE, dotted)
    ELSE LET r == BestRun(q)
         IN  Groups(q, 1, r[1] - 1, FALSE) \o <<":", ":">>
                \o Groups(q, r[1] + r[2], IPV6_NUM_QUIBBLE, dotted)

WrittenMask(mask, default) == IF mask # default THEN <<"/">> \o Dec(mask) ELSE <<>>

DoubleColonsIn(text) == {i \in 1..(Len(text) - 1) : text[i] = ":" /\ text[i + 1] = ":"}

\* t is v in lowercase hex without leading zeros
LowercaseHexOf(t, v) ==
    /\ Len(t) \in 1..MAX_QUIBBLE_DIGITS
    /\ \A i \in 1..Len(t) : t[i] \in Range(LowerHexDigits)
    /\ Len(t) > 1 => t[1] # "0"
    /\ QuibbleValue(t) = v

\* C12: the text of an IPv6 value has '::' at most once, and has it exactly
\* when the address has a run of 2 or more zero quibbles; '::' stands for the
\* longest run, the first of the longest; every other quibble, a zero too, is
\* written in lowercase hex without leading zeros (the last two quibbles, when
\* written as a dotted IPv4 address, are C13's).
C12_ZeroRunCompression ==
    (Written /\ value.type = IP_ADDRESS_V6) =>
        LET q == value.address
            mask == WrittenMask(value.mask, IPV6_DEFAULT_MASK)
        IN  /\ Cardinality(DoubleColonsIn(input)) <= 1
            /\ DoubleColonsIn(input) # {} <=> ZeroRuns(q) # {}
            /\ \/ input = Compressed(q, FALSE) \o mask
               \/ "." \in Range(input) /\ input = Compressed(q, TRUE) \o mask
            /\ \A i \in 1..IPV6_NUM_QUIBBLE : LowercaseHexOf(Hex(q[i]), q[i])

\* C12 witness: an address with two runs of 2 zero quibbles and one single
\* zero quibble has been written with its first run as '::'
C12_Witness ==
    /\ Written /\ value.type = IP_ADDRESS_V6
    /\ \E a, b \in 1..IPV6_NUM_QUIBBLE :
          a < b /\ <<a, 2>> \in ZeroRuns(value.address) /\ <<b, 2>> \in ZeroRuns(value.address)
    /\ \E i \in 2..(IPV6_NUM_QUIBBLE - 1) :
          value.address[i] = 0 /\ value.address[i - 1] # 0 /\ value.address[i + 1] # 0
    /\ Cardinality(DoubleColonsIn(input)) = 1

\* The forms of an address with an embedded IPv4 address
UpperZero(q, n) == \A i \in 1..n : q[i] = 0
IPv4Compatible(q) == UpperZero(q, 6) /\ q # Zero128 /\ q # One128
IPv4Mapped(q) == UpperZero(q, 5) /\ q[6] = 65535
IPv4Translated(q) == UpperZero(q, 4) /\ q[5] = 65535 /\ q[6] = 0

DottedTail(q) == Groups(q, IPV6_NUM_QUIBBLE - 1, IPV6_NUM_QUIBBLE, TRUE)

\* C13: an IPv6 value with quibbles 0..5 zero, but for ::1 and ::, is written
\* as '::' and its last 32 bits dotted; an IPv4-mapped value as '::ffff:' and
\* an IPv4-translated one as '::ffff:0:' with the dotted tail; ::1 is written
\* '::1', the zero address '::', and every other value has its last two
\* quibbles in hex.
C13_EmbeddedIPv4Rendering ==
    (Written /\ value.type = IP_ADDRESS_V6) =>
        LET q == value.address
            mask == WrittenMask(value.mask, IPV6_DEFAULT_MASK)
        IN  /\ IPv4Compatible(q) => input = <<":", ":">> \o DottedTail(q) \o mask
            /\ IPv4Mapped(q) =>
                  input = <<":", ":", "f", "f", "f", "f", ":">> \o DottedTail(q) \o mask
            /\ IPv4Translated(q) =>
                  input = <<":", ":", "f", "f", "f", "f", ":", "0", ":">> \o DottedTail(q) \o mask
            /\ q = One128 => input = <<":", ":", "1">> \o mask
            /\ q = Zero128 => input = <<":", ":">> \o mask
            /\ ~(IPv4Compatible(q) \/ IPv4Mapped(q) \/ IPv4Translated(q))
                  => "." \notin Range(input)

----------------------------------------------------------------------------
(* Claims on the arithmetic and on the stored key *)

\* x < y on uhugeint_t and on hugeint_t
UnsignedLess(x, y) ==
    \E i \in 1..IPV6_NUM_QUIBBLE : x[i] < y[i] /\ \A j \in 1..(i - 1) : x[j] = y[j]
SignedLess(x, y) ==
    IF IsNegative(x) # IsNegative(y) THEN IsNegative(x) ELSE UnsignedLess(x, y)

\* The magnitude of a stored row: the stored address itself, with the top bit
\* flipped back for an IPv6 row of a revision that stores the compatible form
Magnitude(r, row) ==
    IF r # REV_UNSIGNED /\ row.a_val = IP_ADDRESS_V6
    THEN [row.b_val EXCEPT ![1] = IF @ >= 32768 THEN @ - 32768 ELSE @ + 32768]
    ELSE row.b_val

\* The last call as the offset m + d: the sign and the absolute value of d
\* (which is val for Add and -val for Subtract)
CallMade == pc = "row" /\ last.op # "none"
OffsetDown ==
    IF last.op = "Add" THEN IsNegative(last.val)
    ELSE ~IsNegative(last.val) /\ last.val # Zero128
OffsetSize == IF IsNegative(last.val) THEN Minus(last.val) ELSE last.val
Before == Magnitude(rev, last.ip)
ExactInRange ==
    IF OffsetDown THEN ~UnsignedLess(Before, OffsetSize)
    ELSE CarryOut(Before, OffsetSize, 1) = 0
Exact == IF OffsetDown THEN Diff128(Before, OffsetSize) ELSE Sum128(Before, OffsetSize)

\* C2: an Add or Subtract on an IPv6 row that returns, returns the row whose
\* magnitude is exactly m + d, and only when 0 <= m + d < 2^128; a call that
\* throws is one whose m + d is out of that range or whose operand is the
\* minimum hugeint.  No call returns m + d reduced modulo 2^128.
C2_CheckedIPv6Arithmetic ==
    (CallMade /\ last.ip.a_val = IP_ADDRESS_V6) =>
        /\ last.ok => (ExactInRange /\ Magnitude(rev, last.result) = Exact)
        /\ ~last.ok => (~ExactInRange \/ last.val = MinHugeint)
        /\ ~last.ok => last.error = "OutOfRangeException"

\* C2 witness: a Subtract of a negative operand has taken an IPv6 row stored
\* in the compatible form from below 2^127 to 2^127 or above
C2_Witness ==
    /\ CallMade /\ last.ip.a_val = IP_ADDRESS_V6 /\ rev = REV_COMPAT
    /\ last.op = "Subtract" /\ IsNegative(last.val) /\ last.ok
    /\ Before[1] < 32768 /\ Magnitude(rev, last.result)[1] >= 32768

\* C3: an IPv4 row stays an IPv4 row below 2^32 through every Add and
\* Subtract, and a call whose exact result is 2^32 or more, or negative,
\* throws.
C3_IPv4Domain ==
    /\ (pc = "row" /\ current.a_val = IP_ADDRESS_V4) => ~OutsideIPv4(Magnitude(rev, current))
    /\ (CallMade /\ last.ip.a_val = IP_ADDRESS_V4) =>
          /\ last.ok => last.result.a_val = IP_ADDRESS_V4
          /\ (~ExactInRange \/ OutsideIPv4(Exact)) => ~last.ok

\* C4: of two rows cast from addresses of the same type, the one with the
\* smaller address has the smaller stored key: compared as hugeint_t where
\* the compatible form is stored, as uhugeint_t where the address is.
C4_OrderPreserved ==
    pc = "rows" =>
        \A i, j \in 1..Len(rows.data) :
            LET a == TryParse(source.entries[i])
                b == TryParse(source.entries[j])
            IN  (/\ ~rows.data[i].null /\ ~rows.data[j].null
                 /\ a.type = b.type
                 /\ UnsignedLess(a.address, b.address))
                    => IF rev = REV_UNSIGNED
                       THEN UnsignedLess(rows.data[i].b_val, rows.data[j].b_val)
                       ELSE SignedLess(rows.data[i].b_val, rows.data[j].b_val)

\* C4 witness: two IPv6 rows on the two sides of 2^127 and two IPv4 rows have
\* been cast in a revision that stores the compatible form
C4_Witness ==
    /\ pc = "rows" /\ rev # REV_UNSIGNED /\ Len(rows.data) = 2
    /\ ~rows.data[1].null /\ ~rows.data[2].null
    /\ rows.data[1].a_val = IP_ADDRESS_V6 /\ rows.data[2].a_val = IP_ADDRESS_V6
    /\ TryParse(source.entries[1]).address[1] < 32768
    /\ TryParse(source.entries[2]).address[1] >= 32768

\* C14: an Add or Subtract that returns, returns a row with the type and the
\* mask of its input row; with the operand 0 it returns, and returns the input
\* row itself, whatever the row is.
C14_FrameOfOffset ==
    CallMade =>
        /\ last.ok => (last.result.a_val = last.ip.a_val /\ last.result.c_val = last.ip.c_val)
        /\ last.val = Zero128 => (last.ok /\ last.result = last.ip)

\* C14 witness: 0 has been subtracted from the highest IPv6 address, and the
\* row returned is the input row
C14_Witness ==
    /\ CallMade /\ last.op = "Subtract" /\ last.val = Zero128 /\ last.ok
    /\ last.ip.a_val = IP_ADDRESS_V6 /\ Magnitude(rev, last.ip) = Ones
    /\ rev = REV_UNSIGNED /\ current = last.ip

\* The address of a parsed text as the revision stores it
Encoded(r, inet) ==
    IF r # REV_UNSIGNED /\ inet.type = IP_ADDRESS_V6
    THEN [inet.address EXCEPT ![1] = IF @ >= 32768 THEN @ - 32768 ELSE @ + 32768]
    ELSE inet.address

FailedRows == {i \in DOMAIN source.entries :
                  source.entries[i] # NULL /\ ~TryParse(source.entries[i]).ok}

\* C15: the cast of a batch that is not constant gives a row for every input
\* row; row i is null exactly when input row i is null or does not parse, and
\* holds the type, the stored address and the mask parsed from row i
\* otherwise, whatever the rows before it; success is false exactly when an
\* input row that is not null did not parse.
C15_BatchCast ==
    (pc = "rows" /\ ~source.constant) =>
        /\ rows.vector_type = "FLAT_VECTOR"
        /\ DOMAIN rows.data = DOMAIN source.entries
        /\ \A i \in DOMAIN source.entries :
              IF source.entries[i] = NULL \/ i \in FailedRows
              THEN rows.data[i].null
              ELSE /\ ~rows.data[i].null
                   /\ rows.data[i].a_val = TryParse(source.entries[i]).type
                   /\ rows.data[i].b_val = Encoded(rev, TryParse(source.entries[i]))
                   /\ rows.data[i].c_val = TryParse(source.entries[i]).mask
        /\ rows.success <=> FailedRows = {}

\* C15 witness: the first row did not parse, the second row is cast, and
\* success is false
C15_Witness ==
    /\ pc = "rows" /\ ~source.constant /\ Len(source.entries) = 2
    /\ 1 \in FailedRows /\ rows.data[1].null
    /\ ~rows.data[2].null /\ rows.data[2].a_val = IP_ADDRESS_V6 /\ rows.data[2].c_val = 128
    /\ ~rows.success /\ rev = REV_RANGE

=============================================================================
